---- MODULE Spec2Model ----
(***************************************************************************)
(* Model of the Jain University attendance checker                         *)
(* (attendance_checker.py, webapp.py, config.py).                          *)
(*                                                                         *)
(* Text is a sequence of characters; a character is a one-character        *)
(* string, except the two named code points "U2460" (CIRCLED DIGIT ONE)    *)
(* and "UFF21" (FULLWIDTH LATIN CAPITAL LETTER A), which stand for         *)
(* non-ASCII characters that unicodedata.normalize('NFKD', .) rewrites.    *)
(* Python's None is the value None, the empty str is <<>>.                 *)
(***************************************************************************)
EXTENDS Integers, Sequences, FiniteSets, TLC

\* ------------------------------------------------------------------ bounds

\* longest raw AI text enumerated over the full model alphabet
MaxLen == 4

\* longest raw AI text enumerated over the two-character sparse alphabet
MaxSparseLen == 13

\* largest max_retries handed to solve_captcha_with_gemini on its own
MaxRetries == 5

\* most elements a locator strategy returns
MaxAnchors == 2

\* most elements one selector query returns in the runs of the count
\* extractors
MaxElems == 3

\* most subjects in the lists handed to the aggregator on its own
MaxSubjects == 2

\* longest text typed in the runs of the field typer on its own
MaxTypeLen == 4

\* longest text of punctuation and white space handed to the cleaner
MaxPunctLen == 4

\* number of sessions started in the runs with concurrent sessions
MaxSessions == 2

\* ------------------------------------------------------------- characters

None == <<"None">>

UpperSeq ==
  <<"A","B","C","D","E","F","G","H","I","J","K","L","M",
    "N","O","P","Q","R","S","T","U","V","W","X","Y","Z">>

LowerSeq ==
  <<"a","b","c","d","e","f","g","h","i","j","k","l","m",
    "n","o","p","q","r","s","t","u","v","w","x","y","z">>

DigitSeq == <<"0","1","2","3","4","5","6","7","8","9">>

Range(s) == {s[i] : i \in DOMAIN s}

UpperLetters == Range(UpperSeq)

LowerLetters == Range(LowerSeq)

Digits == Range(DigitSeq)

\* str.strip() with no argument strips these
Whitespace == {" ", "\n", "\t"}

\* the argument of captcha_text.strip('\'".,!?-_()[]{}:;')
StripPunct ==
  {"'", "\"", ".", ",", "!", "?", "-", "_", "(", ")", "[", "]", "{", "}", ":", ";"}

\* the character class [A-Z0-9] of the regular expressions
IsAZ09(c) == c \in UpperLetters \cup Digits

\* str.isalnum() on one character (the non-ASCII model characters are a
\* number and a letter)
IsAlnumChar(c) ==
  c \in UpperLetters \cup LowerLetters \cup Digits \cup {"U2460", "UFF21"}

\* str.upper() on one character
UpperChar(c) ==
  IF c \in LowerLetters
    THEN UpperSeq[CHOOSE i \in DOMAIN LowerSeq : LowerSeq[i] = c]
    ELSE c

\* unicodedata.normalize('NFKD', c) on one character
NFKDChar(c) ==
  CASE c = "U2460" -> "1"
    [] c = "UFF21" -> "A"
    [] c = "UFF01" -> "!"
    [] OTHER -> c

\* ------------------------------------------------------- string helpers

Upper(s) == [i \in DOMAIN s |-> UpperChar(s[i])]

NFKD(s) == [i \in DOMAIN s |-> NFKDChar(s[i])]

RECURSIVE LStrip(_, _)
LStrip(s, set) ==
  IF s # <<>> /\ Head(s) \in set THEN LStrip(Tail(s), set) ELSE s

RECURSIVE RStrip(_, _)
RStrip(s, set) ==
  IF s # <<>> /\ s[Len(s)] \in set
    THEN RStrip(SubSeq(s, 1, Len(s) - 1), set)
    ELSE s

\* str.strip(chars)
StripChars(s, set) == RStrip(LStrip(s, set), set)

\* str.strip()
Strip(s) == StripChars(s, Whitespace)

\* str.startswith
StartsWith(s, p) == Len(p) <= Len(s) /\ SubSeq(s, 1, Len(p)) = p

\* s[n:]
DropFirst(s, n) == SubSeq(s, n + 1, Len(s))

\* re.sub(r'[^A-Z0-9]', '', s)
KeepEverything(s) == s

KeepAZ09(s) == SelectSeq(s, IsAZ09)

\* length of the run of [A-Z0-9] characters of s that starts at position i
RECURSIVE RunLen(_, _)
RunLen(s, i) ==
  IF i <= Len(s) /\ IsAZ09(s[i]) THEN 1 + RunLen(s, i + 1) ELSE 0

\* re.findall(r'[A-Z0-9]{lo,hi}', s): the matches, left to right, each
\* greedy and starting where the previous one ended
RECURSIVE FindAllFrom(_, _, _, _)
FindAllFrom(s, i, lo, hi) ==
  IF i > Len(s) THEN <<>>
  ELSE LET n == RunLen(s, i)
           k == IF n > hi THEN hi ELSE n
       IN IF n >= lo
            THEN <<SubSeq(s, i, i + k - 1)>> \o FindAllFrom(s, i + k, lo, hi)
            ELSE FindAllFrom(s, i + 1, lo, hi)

FindAll(s, lo, hi) == FindAllFrom(s, 1, lo, hi)

\* str.isalnum(): non-empty and every character alphanumeric
IsAlnum(s) == s # <<>> /\ \A i \in DOMAIN s : IsAlnumChar(s[i])

\* ------------------------------------------------------- TextNormalizer

unwanted_patterns ==
  << <<"T","H","E"," ","T","E","X","T"," ","I","S",":">>,
     <<"T","E","X","T",":">>,
     <<"C","A","P","T","C","H","A",":">>,
     <<"A","N","S","W","E","R",":">>,
     <<"R","E","S","U","L","T",":">>,
     <<"T","H","E"," ","A","N","S","W","E","R"," ","I","S",":">>,
     <<"T","H","E"," ","C","A","P","T","C","H","A"," ","I","S",":">>,
     <<"T","H","E"," ","C","O","D","E"," ","I","S",":">>,
     <<"C","O","D","E",":">>,
     <<"I","M","A","G","E"," ","C","O","N","T","A","I","N","S",":">>,
     <<"I"," ","S","E","E",":">>,
     <<"T","H","E"," ","I","M","A","G","E"," ","S","H","O","W","S",":">>,
     <<"T","H","E"," ","T","E","X","T"," ","I","N"," ","T","H","E"," ",
       "I","M","A","G","E"," ","I","S",":">>,
     <<"C","A","P","T","C","H","A"," ","T","E","X","T",":">>,
     <<"T","H","E"," ","C","A","P","T","C","H","A"," ","T","E","X","T"," ",
       "I","S",":">>
  >>

\* Step 2: the loop over unwanted_patterns with its break
RECURSIVE StripPrefixFrom(_, _)
StripPrefixFrom(s, k) ==
  IF k > Len(unwanted_patterns) THEN s
  ELSE IF StartsWith(s, unwanted_patterns[k])
         THEN Strip(DropFirst(s, Len(unwanted_patterns[k])))
         ELSE StripPrefixFrom(s, k + 1)

StripNoPrefix(s) == s

StripPrefix(s) == StripPrefixFrom(s, 1)

\* Step 3: the first run of 3 to 8 characters, when there is one
ExtractSequence(s) ==
  LET matches == FindAll(s, 3, 8)
  IN IF matches # <<>> THEN matches[1] ELSE s

\* Step 7: the final validation and length check
ValidateLength(t) ==
  IF t # <<>> /\ Len(t) >= 3 /\ Len(t) <= 10 THEN t
  ELSE IF t # <<>> /\ Len(t) > 10
    THEN LET possible_codes == FindAll(t, 4, 6)
         IN IF possible_codes # <<>> THEN possible_codes[1]
            ELSE IF Len(t) >= 3 THEN SubSeq(t, 1, 6) ELSE None
  ELSE IF t # <<>> THEN t ELSE None

clean_captcha_response(text) ==
  IF text = <<>> \/ text = None THEN None
  ELSE LET s1 == Upper(Strip(text))
           s2 == StripPrefix(s1)
           s3 == ExtractSequence(s2)
           s4 == StripChars(s3, StripPunct)
           s5 == NFKD(s4)
           s6 == KeepAZ09(s5)
       IN ValidateLength(s6)

\* the strict gate of the solve loop:
\* cleaned_text and len(cleaned_text) >= 4 and cleaned_text.isalnum()
StrictGate(t) == t # None /\ t # <<>> /\ Len(t) >= 4 /\ IsAlnum(t)

\* clean_captcha_character: one character of the token, cleaned for typing
CleanCharKeepCase(c) ==
  LET stripped == Strip(<<c>>)
  IN IF IsAlnum(stripped) THEN stripped ELSE <<>>

clean_captcha_character(c) ==
  LET stripped == Strip(<<c>>)
      noctl == SelectSeq(stripped, LAMBDA x : x \notin {"\n", "\t"})
      up == Upper(noctl)
  IN IF IsAlnum(up) THEN up ELSE <<>>

\* ------------------------------------------------------------------ state

VARIABLES
  nraw,            \* TextNormalizer check: the raw text handed to the cleaner
  nout,            \* its cleaned text
  nout2,           \* the cleaned text, cleaned once more
  pc,              \* position of the flow
  max_retries,     \* solve_captcha_with_gemini: parameter max_retries
  attempt,         \* solve_captcha_with_gemini: loop variable attempt
  calls,           \* the generate_content calls of the current solve, in order
  solve_result,    \* value returned by the current solve
  login_attempt,   \* automated_login: loop variable attempt
  captcha_text,    \* automated_login: captcha_text
  via,             \* the front-end that produced captcha_text
  field,           \* content of the captcha input field
  submitted,       \* field contents at each click on the login button
  refreshes,       \* clicks on the refresh-captcha button
  current_url,     \* automated_login: current_url
  refresh_btn,     \* automated_login: refresh_btn
  login_success,   \* value returned by automated_login ("none" before)
  status,          \* active_sessions[session_id]['status']
  session_error,   \* active_sessions[session_id]['error']
  results,         \* active_sessions[session_id]['results']
  subject_names,   \* self.subject_names
  plus_icons,      \* extract_attendance_data: plus_icons
  queried,         \* the locator strategies queried, with what each returned
  index,           \* extract_attendance_data: loop variable index
  conducted,       \* extract_attendance_data: conducted
  conducted_list,  \* self.conducted_list
  attended_list,   \* self.attended_list
  subject_log,     \* per processed anchor: what the loop body found for it
  all_conducted,   \* extract_conducted_count: all_conducted
  all_attended,    \* extract_attended_count: all_attended
  conducted_count, \* value returned by extract_conducted_count
  attended_count,  \* value returned by extract_attended_count
  char_i,          \* fill_captcha_character_by_character: loop index i
  page_ops,        \* the calls made on the page by the typing, in order
  field_value,     \* value returned by fill_captcha_character_by_character
  displayed,       \* what calculate_and_display_results printed
  active_sessions, \* webapp.active_sessions, by session id
  run_pc,          \* position of each run_with_websocket thread
  checkers,        \* the WebAttendanceChecker instance of each thread
  emitted,         \* the socketio.emit calls made so far
  genai_api_key,   \* the key google.generativeai is configured with
  subject_containers, \* extract_all_subject_names: subject_containers
  cleanups         \* the calls of cleanup made by the run

normVars == <<nraw, nout, nout2>>

solveVars == <<max_retries, attempt, calls, solve_result>>

loginVars ==
  <<login_attempt, captcha_text, via, field, submitted, refreshes,
    current_url, refresh_btn, login_success>>

sessionVars == <<status, session_error, results>>

extractVars ==
  <<subject_names, plus_icons, queried, index, conducted, conducted_list,
    attended_list, subject_log>>

countVars ==
  <<all_conducted, all_attended, conducted_count, attended_count>>

typeVars == <<char_i, page_ops, field_value>>

cliVars == <<displayed>>

twoVars == <<active_sessions, run_pc, checkers, emitted, genai_api_key>>

pageVars == <<subject_containers>>

runVars == <<cleanups>>

sideVars == <<countVars, typeVars, cliVars, twoVars, pageVars, runVars>>

vars ==
  <<nraw, nout, nout2, pc, max_retries, attempt, calls, solve_result,
    login_attempt, captcha_text, via, field, submitted, refreshes,
    current_url, refresh_btn, login_success, status, session_error, results, subject_names,
    plus_icons, queried, index, conducted, conducted_list, attended_list,
    subject_log, all_conducted, all_attended, conducted_count,
    attended_count, char_i, page_ops, field_value, displayed,
    active_sessions, run_pc, checkers, emitted, genai_api_key,
    subject_containers, cleanups>>

InitNormIdle == nraw = <<>> /\ nout = None /\ nout2 = None

InitSolveIdle ==
  max_retries = 0 /\ attempt = 0 /\ calls = <<>> /\ solve_result = <<>>

InitLoginIdle ==
  /\ login_attempt = 0 /\ captcha_text = <<>> /\ via = "none"
  /\ field = <<>> /\ submitted = <<>> /\ refreshes = 0
  /\ current_url = "none" /\ refresh_btn = "none"
  /\ login_success = "none"

InitSessionIdle ==
  /\ status = "none" /\ session_error = "unset"
  /\ results = [subjects |-> <<>>, status |-> "unset"]

InitExtractIdle ==
  /\ subject_names = <<>> /\ plus_icons = <<>> /\ queried = <<>>
  /\ index = 0 /\ conducted = -1
  /\ conducted_list = <<>> /\ attended_list = <<>> /\ subject_log = <<>>

InitCountIdle ==
  /\ all_conducted = <<>> /\ all_attended = <<>>
  /\ conducted_count = -1 /\ attended_count = -1

InitTypeIdle == char_i = 0 /\ page_ops = <<>> /\ field_value = <<>>

InitCliIdle == displayed = [status |-> "unset"]

InitTwoIdle ==
  /\ active_sessions = <<>> /\ run_pc = <<>> /\ checkers = <<>>
  /\ emitted = {} /\ genai_api_key = "unset"

InitPageIdle == subject_containers = <<>>

InitRunIdle == cleanups = 0

InitSideIdle ==
  /\ InitCountIdle /\ InitTypeIdle /\ InitCliIdle /\ InitTwoIdle
  /\ InitPageIdle /\ InitRunIdle

\* ------------------------------------------------ TextNormalizer as a run

\* the model alphabet of raw AI texts: a lower-case and an upper-case
\* letter, a digit, white space, a quote, and a compatibility digit
NormAlphabet == {"a", "B", "1", " ", "'", "U2460"}

\* texts with short runs only: an alphanumeric character and a separator
SparseAlphabet == {"A", "-"}

SeqsUpTo(S, n) == UNION {[1..k -> S] : k \in 0..n}

\* a preamble phrase, a blank, and a quoted token
Quoted(p, t) == p \o <<" ", "'">> \o t \o <<"'">>

\* tokens of 4 to 8 letters and digits
TokenSamples ==
  { <<"x","Y","1","2">>,
    <<"c","o","d","e">>,
    <<"7","a","b","c","9">>,
    <<"Q","r","7","z","K","4">>,
    <<"a","1","B","2","c","3","D">>,
    <<"t","e","x","t","2","0","2","5">> }

PreambleSamples ==
  {Quoted(unwanted_patterns[k], t) :
     k \in DOMAIN unwanted_patterns, t \in TokenSamples}

\* punctuation and white space: a blank, a tab, two marks that step 4
\* strips, one it does not, and a full-width exclamation mark
PunctAlphabet == {" ", "\t", "'", "-", "#", "UFF01"}

NormInputs ==
  SeqsUpTo(NormAlphabet, MaxLen) \cup SeqsUpTo(SparseAlphabet, MaxSparseLen)
    \cup PreambleSamples \cup SeqsUpTo(PunctAlphabet, MaxPunctLen)

InitNorm ==
  /\ nraw \in NormInputs
  /\ nout = None /\ nout2 = None
  /\ pc = "norm"
  /\ InitSideIdle
  /\ InitSolveIdle
  /\ InitLoginIdle
  /\ InitSessionIdle
  /\ InitExtractIdle

\* cleaned_text = self.clean_captcha_response(raw_text)
Normalize ==
  /\ pc = "norm"
  /\ nout' = clean_captcha_response(nraw)
  /\ pc' = "norm_again"
  /\ UNCHANGED <<sideVars, nraw, nout2, solveVars, loginVars, sessionVars, extractVars>>

\* the cleaner run on its own output
Renormalize ==
  /\ pc = "norm_again"
  /\ nout2' = clean_captcha_response(nout)
  /\ pc' = "norm_done"
  /\ UNCHANGED <<sideVars, nraw, nout, solveVars, loginVars, sessionVars, extractVars>>

NextNorm == Normalize \/ Renormalize

SpecNorm == InitNorm /\ [][NextNorm]_vars

\* ---------------------------------------------------------- CaptchaSolver

\* len(config.CAPTCHA_PROMPTS)
NumPrompts == 4

\* the default of the parameter max_retries
DefaultMaxRetries == 3

\* what model.generate_content can hand back: an exception, a response
\* without text, or a response with one of these texts
Error == <<"Error">>

RawTexts ==
  { <<"x","Y","1","2">>,
    <<"A","B","1">>,
    <<"a"," ","b">>,
    <<"?","!">>,
    <<"c","o","d","e",":"," ","Q","r","7","z">> }

AIOutcomes == {Error, <<>>} \cup RawTexts

\* prompt_index = attempt % len(config.CAPTCHA_PROMPTS)
PromptIndexNoWrap(att) == att

PromptIndex(att) == att % NumPrompts

\* cleaned_text of one generate_content outcome, as the loop body computes it
CleanedOf(out) ==
  IF out = Error \/ out = <<>> THEN None
  ELSE clean_captcha_response(Strip(out))

\* the loop body accepts the outcome and returns
Accepts(out) == StrictGate(CleanedOf(out))

\* the loop variable after an attempt that raised: the inner except
\* continues with the next attempt
AttemptAfterErrorAbort(att, max) == max

AttemptAfterError(att, max) == att + 1

\* the loop variable after an attempt that returned no text or a rejected
\* text
AttemptAfterReject(att, max) == att + 1

\* lines 223-237: configure, download the image, open it; any failure
\* returns "" before the loop
SolveStart ==
  /\ pc = "solve_start"
  /\ \E ok \in BOOLEAN :
       IF ok /\ max_retries > 0
         THEN /\ pc' = "solve_loop"
              /\ solve_result' = <<>>
         ELSE /\ pc' = "solve_ret"
              /\ solve_result' = <<>>
  /\ attempt' = 0
  /\ calls' = <<>>
  /\ UNCHANGED <<sideVars, normVars, max_retries, loginVars, sessionVars, extractVars>>

\* lines 240-279: one pass of the loop body, and the return that follows
\* an accepted text or the last pass
SolveAttempt ==
  /\ pc = "solve_loop"
  /\ attempt < max_retries
  /\ \E out \in AIOutcomes :
       LET next == IF out = Error
                     THEN AttemptAfterError(attempt, max_retries)
                     ELSE AttemptAfterReject(attempt, max_retries)
       IN /\ calls' = Append(calls, [prompt |-> PromptIndex(attempt),
                                     out |-> out])
          /\ IF Accepts(out)
               THEN /\ solve_result' = CleanedOf(out)
                    /\ pc' = "solve_ret"
                    /\ attempt' = attempt
               ELSE /\ attempt' = next
                    /\ solve_result' = <<>>
                    /\ pc' = IF next < max_retries
                               THEN "solve_loop" ELSE "solve_ret"
  /\ UNCHANGED <<sideVars, normVars, max_retries, loginVars, sessionVars, extractVars>>

InitSolve ==
  /\ InitNormIdle
  /\ InitSideIdle
  /\ pc = "solve_start"
  /\ max_retries \in 1..MaxRetries
  /\ attempt = 0 /\ calls = <<>> /\ solve_result = <<>>
  /\ InitLoginIdle
  /\ InitSessionIdle
  /\ InitExtractIdle

NextSolve == SolveStart \/ SolveAttempt

SpecSolve == InitSolve /\ [][NextSolve]_vars

\* ------------------------------------------------------------------ login

\* max_attempts = 2
max_attempts == 2

\* truthiness of a str-or-None value
Truthy(t) == t # None /\ t # <<>>

\* solve_captcha_with_screenshot: one generate_content call with
\* config.CAPTCHA_PROMPT; the cleaned text is returned when it is truthy
ScreenshotToken(out) ==
  IF out = Error \/ out = <<>> THEN None
  ELSE LET cleaned == clean_captcha_response(out)
       IN IF Truthy(cleaned) THEN cleaned ELSE None

\* fill_captcha_character_by_character on a field that takes every
\* keystroke: the cleaned characters of the token, in order
RECURSIVE TypedText(_)
TypedText(t) ==
  IF t = <<>> THEN <<>>
  ELSE clean_captcha_character(Head(t)) \o TypedText(Tail(t))

\* a loop over the login attempts that has no last attempt
LoginContinueUnbounded ==
  /\ login_attempt' = login_attempt + 1
  /\ pc' = "login_loop"
  /\ login_success' = login_success

\* `continue` in the loop over the login attempts, and the return False
\* that follows the last one
LoginContinue ==
  IF login_attempt < max_attempts
    THEN /\ login_attempt' = login_attempt + 1
         /\ pc' = "login_loop"
         /\ login_success' = login_success
    ELSE /\ login_attempt' = login_attempt
         /\ pc' = "login_ret"
         /\ login_success' = "False"

\* a retry that leaves the captcha as it is
NotRefreshed(btn) == refreshes

\* the refresh of the captcha before a further attempt: the button is
\* clicked when the attempt is not the last and the page has the button
Refreshed(btn) ==
  IF login_attempt < max_attempts /\ btn THEN refreshes + 1 ELSE refreshes

\* refresh_btn = await self.page.query_selector(...): the button is looked
\* up only when the attempt is not the last
LookedUp(btn) ==
  IF login_attempt < max_attempts
    THEN (IF btn THEN "found" ELSE "None")
    ELSE refresh_btn

\* lines 401-435: fill the credentials, find the captcha image, start the
\* URL solve; an exception or a missing image ends the attempt
LoginBegin ==
  /\ pc = "login_loop"
  /\ \E found \in BOOLEAN :
       IF found
         THEN /\ pc' = "solve_start"
              /\ max_retries' = DefaultMaxRetries
              /\ UNCHANGED <<login_attempt, login_success>>
         ELSE /\ LoginContinue
              /\ UNCHANGED max_retries
  /\ captcha_text' = <<>>
  /\ via' = "none"
  /\ UNCHANGED <<sideVars, normVars, attempt, calls, solve_result, field, submitted,
                 refreshes, current_url, refresh_btn, sessionVars, extractVars>>

\* lines 435-438: the URL solve has returned; its locals are gone
LoginAfterSolve ==
  /\ pc = "solve_ret"
  /\ captcha_text' = solve_result
  /\ via' = "url"
  /\ pc' = IF Truthy(solve_result) THEN "fill" ELSE "screenshot"
  /\ max_retries' = 0 /\ attempt' = 0 /\ calls' = <<>>
  /\ solve_result' = <<>>
  /\ UNCHANGED <<sideVars, normVars, login_attempt, field, submitted, refreshes, current_url, refresh_btn,
                 login_success, sessionVars, extractVars>>

\* lines 438-450: the screenshot solve, and the refresh-and-continue when
\* it returns nothing either
LoginScreenshot ==
  /\ pc = "screenshot"
  /\ \E out \in AIOutcomes, btn \in BOOLEAN :
       LET token == ScreenshotToken(out)
       IN /\ captcha_text' = token
          /\ via' = "screenshot"
          /\ IF Truthy(token)
               THEN /\ pc' = "fill"
                    /\ UNCHANGED <<login_attempt, login_success, refreshes,
                                   refresh_btn>>
               ELSE /\ refreshes' = Refreshed(btn)
                    /\ refresh_btn' = LookedUp(btn)
                    /\ LoginContinue
  /\ UNCHANGED <<sideVars, normVars, solveVars, field, submitted, current_url,
                 sessionVars, extractVars>>

\* line 453: the token is typed into the captcha field; an exception of
\* the browser ends the attempt
LoginFill ==
  /\ pc = "fill"
  /\ \E ok \in BOOLEAN :
       IF ok
         THEN /\ field' = TypedText(captcha_text)
              /\ pc' = "click"
              /\ UNCHANGED <<login_attempt, login_success>>
         ELSE /\ field' = <<>>
              /\ LoginContinue
  /\ UNCHANGED <<sideVars, normVars, solveVars, captcha_text, via, submitted,
                 refreshes, current_url, refresh_btn, sessionVars, extractVars>>

\* config.LOGIN_SUCCESS_URL and config.LOGIN_FAILURE_URL
LOGIN_SUCCESS_URL == "success"

LOGIN_FAILURE_URL == "failure"

\* what self.page.url can be after the click; "raise" when the click raises
UrlSamples == {"raise", LOGIN_SUCCESS_URL, LOGIN_FAILURE_URL, "other"}

\* lines 456-496: the click on the login button and the URL found after
\* it; a click that raises ends the attempt
LoginClick ==
  /\ pc = "click"
  /\ \E url \in UrlSamples, btn \in BOOLEAN :
       CASE url = "raise" ->
              /\ UNCHANGED <<submitted, refreshes, current_url, refresh_btn>>
              /\ LoginContinue
         [] url = LOGIN_SUCCESS_URL ->
              /\ submitted' = Append(submitted, field)
              /\ current_url' = url
              /\ login_success' = "True"
              /\ pc' = "login_ret"
              /\ UNCHANGED <<login_attempt, refreshes, refresh_btn>>
         [] url = LOGIN_FAILURE_URL ->
              /\ submitted' = Append(submitted, field)
              /\ current_url' = url
              /\ refreshes' = Refreshed(btn)
              /\ refresh_btn' = LookedUp(btn)
              /\ LoginContinue
         [] OTHER ->
              /\ submitted' = Append(submitted, field)
              /\ current_url' = url
              /\ UNCHANGED <<refreshes, refresh_btn>>
              /\ LoginContinue
  /\ UNCHANGED <<sideVars, normVars, solveVars, captcha_text, via, field, sessionVars,
                 extractVars>>

\* --------------------------------------------------- FieldTyper as a run

\* the characters of the texts typed: a lower-case and an upper-case letter,
\* a digit, a blank and a punctuation mark
TypeAlphabet == {"a", "B", "3", " ", "!"}

TypeTexts ==
  SeqsUpTo(TypeAlphabet, MaxTypeLen) \cup {<<"a", "B", " ", "3", "!">>}

\* what the captcha field holds when the typing starts
FieldSamples == {<<>>, <<"O", "L", "D">>}

\* one call on the page
PageOp(name, arg) == [op |-> name, arg |-> arg]

InitType ==
  /\ InitNormIdle
  /\ InitSolveIdle
  /\ InitSessionIdle
  /\ InitExtractIdle
  /\ InitCountIdle /\ InitCliIdle /\ InitPageIdle /\ InitRunIdle /\ InitTwoIdle
  /\ pc = "type_clear"
  /\ login_attempt = 1 /\ via = "url" /\ submitted = <<>> /\ refreshes = 0
  /\ current_url = "none" /\ refresh_btn = "none"
  /\ login_success = "none"
  /\ captcha_text \in TypeTexts
  /\ field \in FieldSamples
  /\ char_i = 0 /\ page_ops = <<>> /\ field_value = <<>>

\* line 558: await self.page.fill(config.CAPTCHA_FIELD, "")
TypeClear ==
  /\ pc = "type_clear"
  /\ \E ok \in BOOLEAN :
       IF ok
         THEN /\ page_ops' = Append(page_ops, PageOp("fill", <<>>))
              /\ field' = <<>>
              /\ pc' = "type_focus"
         ELSE /\ pc' = "type_raised"
              /\ UNCHANGED <<page_ops, field>>
  /\ UNCHANGED <<normVars, solveVars, login_attempt, captcha_text, via,
                 submitted, refreshes, current_url, refresh_btn, login_success, sessionVars,
                 extractVars, countVars, char_i, field_value, cliVars, pageVars, runVars,
                 twoVars>>

\* line 562: await self.page.focus(config.CAPTCHA_FIELD)
TypeFocus ==
  /\ pc = "type_focus"
  /\ \E ok \in BOOLEAN :
       IF ok
         THEN /\ page_ops' = Append(page_ops, PageOp("focus", <<>>))
              /\ pc' = IF captcha_text = <<>> THEN "type_read" ELSE "type_loop"
         ELSE /\ pc' = "type_raised"
              /\ UNCHANGED page_ops
  /\ UNCHANGED <<normVars, solveVars, login_attempt, captcha_text, via,
                 field, submitted, refreshes, current_url, refresh_btn, login_success, sessionVars,
                 extractVars, countVars, char_i, field_value, cliVars, pageVars, runVars,
                 twoVars>>

\* lines 566-573: one pass of the loop over the characters; the field takes
\* the keystroke it is sent
TypeChar ==
  /\ pc = "type_loop"
  /\ char_i < Len(captcha_text)
  /\ LET cleaned_char == clean_captcha_character(captcha_text[char_i + 1])
         last == char_i + 1 = Len(captcha_text)
     IN IF cleaned_char # <<>>
          THEN \E ok \in BOOLEAN :
                 IF ok
                   THEN /\ page_ops' =
                             Append(page_ops, PageOp("type", cleaned_char))
                        /\ field' = field \o cleaned_char
                        /\ char_i' = char_i + 1
                        /\ pc' = IF last THEN "type_read" ELSE "type_loop"
                   ELSE /\ pc' = "type_raised"
                        /\ UNCHANGED <<page_ops, field, char_i>>
          ELSE /\ char_i' = char_i + 1
               /\ pc' = IF last THEN "type_read" ELSE "type_loop"
               /\ UNCHANGED <<page_ops, field>>
  /\ UNCHANGED <<normVars, solveVars, login_attempt, captcha_text, via,
                 submitted, refreshes, current_url, refresh_btn, login_success, sessionVars,
                 extractVars, countVars, field_value, cliVars, pageVars, runVars, twoVars>>

\* line 576: field_value = await self.page.input_value(config.CAPTCHA_FIELD)
TypeRead ==
  /\ pc = "type_read"
  /\ \E ok \in BOOLEAN :
       IF ok
         THEN /\ page_ops' = Append(page_ops, PageOp("input_value", <<>>))
              /\ field_value' = field
              /\ pc' = "type_done"
         ELSE /\ pc' = "type_raised"
              /\ UNCHANGED <<page_ops, field_value>>
  /\ UNCHANGED <<normVars, solveVars, login_attempt, captcha_text, via,
                 field, submitted, refreshes, current_url, refresh_btn, login_success, sessionVars,
                 extractVars, countVars, char_i, cliVars, pageVars, runVars, twoVars>>

NextType == TypeClear \/ TypeFocus \/ TypeChar \/ TypeRead

SpecType == InitType /\ [][NextType]_vars

\* ---------------------------------------------------------- count texts

\* the value of a count that could not be extracted (Python's None)
NoCount == -1

\* the range `1 <= result <= 50` of both extractors
MinReasonable == 1

MaxReasonable == 50

\* a count is present
HasCount(n) == n # NoCount

\* str.isdigit()
IsDigitStr(t) == t # <<>> /\ \A i \in DOMAIN t : t[i] \in Digits

DigitVal(c) == (CHOOSE i \in DOMAIN DigitSeq : DigitSeq[i] = c) - 1

\* int() of a digit string
RECURSIVE ToInt(_)
ToInt(t) ==
  IF t = <<>> THEN 0
  ELSE 10 * ToInt(SubSeq(t, 1, Len(t) - 1)) + DigitVal(t[Len(t)])

\* str.find, one-based: the first place at or after i where p occurs in s,
\* 0 when there is none
RECURSIVE FindFrom(_, _, _)
FindFrom(s, p, i) ==
  IF i + Len(p) - 1 > Len(s) THEN 0
  ELSE IF SubSeq(s, i, i + Len(p) - 1) = p THEN i
  ELSE FindFrom(s, p, i + 1)

\* p in s
Contains(s, p) == FindFrom(s, p, 1) # 0

\* s.split(p)[1], for s that contains p
SplitSecond(s, p) ==
  LET i == FindFrom(s, p, 1)
      rest == DropFirst(s, i + Len(p) - 1)
      j == FindFrom(rest, p, 1)
  IN IF j = 0 THEN rest ELSE SubSeq(rest, 1, j - 1)

\* length of the run of digits of s that starts at position i
RECURSIVE DigitRun(_, _)
DigitRun(s, i) ==
  IF i <= Len(s) /\ s[i] \in Digits THEN 1 + DigitRun(s, i + 1) ELSE 0

\* re.findall(r'\d+', s)[0], <<>> when findall returns nothing
RECURSIVE FirstNumberFrom(_, _)
FirstNumberFrom(s, i) ==
  IF i > Len(s) THEN <<>>
  ELSE IF s[i] \in Digits THEN SubSeq(s, i, i + DigitRun(s, i) - 1)
  ELSE FirstNumberFrom(s, i + 1)

FirstNumber(s) == FirstNumberFrom(s, 1)

\* the literal "Total-"
TotalMarker == <<"T","o","t","a","l","-">>

\* ------------------------------------------------------- CountExtractor
\* An element of the page is [vis |-> is_visible(), text |-> text_content()].

\* lines 808-819: the first element from the end that is visible, all
\* digits and in range
RECURSIVE ScanConductedForward(_, _)
ScanConductedForward(elems, i) ==
  IF i = 0 THEN -1
  ELSE LET k == Len(elems) + 1 - i
           e == elems[k]
           txt == IF e.text # <<>> THEN Strip(e.text) ELSE <<>>
       IN IF e.vis /\ IsDigitStr(txt) /\ ToInt(txt) >= 1 /\ ToInt(txt) <= 50
            THEN ToInt(txt)
            ELSE ScanConductedForward(elems, i - 1)

RECURSIVE ScanConducted(_, _)
ScanConducted(elems, i) ==
  IF i = 0 THEN NoCount
  ELSE LET e == elems[i]
           txt == IF Truthy(e.text) THEN Strip(e.text) ELSE <<>>
       IN IF e.vis /\ IsDigitStr(txt)
             /\ ToInt(txt) >= MinReasonable /\ ToInt(txt) <= MaxReasonable
            THEN ToInt(txt)
            ELSE ScanConducted(elems, i - 1)

\* lines 821-827: the last element, whatever its visibility and value
FallbackConducted(elems) ==
  IF elems = <<>> THEN NoCount
  ELSE LET text == elems[Len(elems)].text
       IN IF Truthy(text) /\ IsDigitStr(Strip(text))
            THEN ToInt(Strip(text)) ELSE NoCount

extract_conducted_count(elems) ==
  LET seen == ScanConducted(elems, Len(elems))
  IN IF HasCount(seen) THEN seen ELSE FallbackConducted(elems)

\* lines 863-870 and 885-892: the first number after the marker
TotalOfWholeText(text) ==
  IF FirstNumber(text) # <<>> THEN ToInt(FirstNumber(text)) ELSE -1

TotalOf(text) ==
  LET numbers == FirstNumber(SplitSecond(text, TotalMarker))
  IN IF numbers # <<>> THEN ToInt(numbers) ELSE NoCount

\* lines 859-878: what one visible element yields
AttendedOfVisible(e) ==
  LET text == IF Truthy(e.text) THEN Strip(e.text) ELSE <<>>
  IN IF text = <<>> THEN NoCount
     ELSE IF Contains(text, TotalMarker) THEN TotalOf(text)
     ELSE IF IsDigitStr(text)
             /\ ToInt(text) >= MinReasonable /\ ToInt(text) <= MaxReasonable
       THEN ToInt(text)
     ELSE NoCount

\* lines 854-880: the first element from the end that is visible and
\* yields a count
RECURSIVE ScanAttended(_, _)
ScanAttended(elems, i) ==
  IF i = 0 THEN NoCount
  ELSE IF elems[i].vis /\ HasCount(AttendedOfVisible(elems[i]))
    THEN AttendedOfVisible(elems[i])
  ELSE ScanAttended(elems, i - 1)

\* lines 882-892: the last element, parsed for the marker only
FallbackAttended(elems) ==
  IF elems = <<>> THEN NoCount
  ELSE LET text == elems[Len(elems)].text
       IN IF Truthy(text) /\ Contains(text, TotalMarker)
            THEN TotalOf(text) ELSE NoCount

extract_attended_count(elems) ==
  LET seen == ScanAttended(elems, Len(elems))
  IN IF HasCount(seen) THEN seen ELSE FallbackAttended(elems)

\* -------------------------------------------------- SubjectNameResolver

\* the class [A-Z\s&] of the name group
IsNameChar(c) == c \in UpperLetters \cup Whitespace \cup {"&"}

\* r'\d{2}[A-Z]{4}\d{4}-([A-Z\s&]+)' matches at position i of s
CodeAt(s, i) ==
  /\ i + 11 <= Len(s)
  /\ \A k \in 0..1 : s[i + k] \in Digits
  /\ \A k \in 2..5 : s[i + k] \in UpperLetters
  /\ \A k \in 6..9 : s[i + k] \in Digits
  /\ s[i + 10] = "-"
  /\ IsNameChar(s[i + 11])

\* re.search: the leftmost match, 0 when there is none
RECURSIVE FirstCodeFrom(_, _)
FirstCodeFrom(s, i) ==
  IF i > Len(s) THEN 0
  ELSE IF CodeAt(s, i) THEN i
  ELSE FirstCodeFrom(s, i + 1)

RECURSIVE NameRun(_, _)
NameRun(s, i) ==
  IF i <= Len(s) /\ IsNameChar(s[i]) THEN 1 + NameRun(s, i + 1) ELSE 0

\* ' '.join(s.split()) on a stripped s
RECURSIVE Collapse(_)
Collapse(s) ==
  IF s = <<>> THEN <<>>
  ELSE IF Head(s) \in Whitespace
    THEN LET r == LStrip(s, Whitespace)
         IN IF r = <<>> THEN <<>> ELSE <<" ">> \o Collapse(r)
  ELSE <<Head(s)>> \o Collapse(Tail(s))

\* s.split('\n')[0]
FirstLine(s) ==
  LET i == FindFrom(s, <<"\n">>, 1)
  IN IF i = 0 THEN s ELSE SubSeq(s, 1, i - 1)

\* lines 736-742 and 767-771: strip, collapse the white space, keep the
\* first line, strip
TidyName(s) == Strip(FirstLine(Collapse(Strip(s))))

\* len(subject_name) > 3 and len(subject_name) < 50
MinNameLen == 3

MaxNameLen == 50

PlausibleName(n) == Len(n) > MinNameLen /\ Len(n) < MaxNameLen

\* len(text_content.strip()) > 10
MinBlockLen == 10

\* match.group(1) of the match at position i
CapturedGroup(text, i) ==
  SubSeq(text, i + 11, i + 10 + NameRun(text, i + 11))

\* lines 727-746: the name the primary pattern finds in one container,
\* None when the container yields none
PrimaryName(text_content) ==
  IF ~Truthy(text_content) \/ Len(Strip(text_content)) <= MinBlockLen
    THEN None
  ELSE LET text == Strip(text_content)
           i == FirstCodeFrom(text, 1)
       IN IF i = 0 THEN None
          ELSE LET name == TidyName(CapturedGroup(text, i))
               IN IF PlausibleName(name) THEN name ELSE None

RECURSIVE PrimaryNames(_)
PrimaryNames(containers) ==
  IF containers = <<>> THEN <<>>
  ELSE LET n == PrimaryName(Head(containers))
       IN (IF n = None THEN <<>> ELSE <<n>>) \o PrimaryNames(Tail(containers))

\* any(char.isdigit() for char in text[:15])
DigitWindow == 15

HasEarlyDigit(text) ==
  \E i \in DOMAIN text : i <= DigitWindow /\ text[i] \in Digits

\* lines 759-773: the name the loose algorithm finds in one container
LooseName(text_content) ==
  IF ~Truthy(text_content) \/ ~Contains(text_content, <<"-">>) THEN None
  ELSE LET text == Strip(text_content)
       IN IF ~HasEarlyDigit(text) \/ ~Contains(text, <<"-">>) THEN None
          ELSE LET name ==
                     TidyName(DropFirst(text, FindFrom(text, <<"-">>, 1)))
               IN IF PlausibleName(name) THEN name ELSE None

\* lines 757-777: the loose pass with its duplicate check
RECURSIVE LooseNames(_, _)
LooseNames(containers, acc) ==
  IF containers = <<>> THEN acc
  ELSE LET n == LooseName(Head(containers))
       IN LooseNames(Tail(containers),
                     IF n = None \/ n \in Range(acc) THEN acc
                     ELSE Append(acc, n))

\* if len(self.subject_names) < 3
MinPrimaryNames == 3

\* both passes kept: the loose pass adds to the names of the primary pass
MergedNames(containers) ==
  LooseNames(containers, PrimaryNames(containers))

\* extract_all_subject_names on the text contents of the .col-lg-12
\* containers (none when the query raises)
extract_all_subject_names(containers) ==
  IF Len(PrimaryNames(containers)) < MinPrimaryNames
    THEN LooseNames(containers, <<>>)
    ELSE PrimaryNames(containers)

\* f"Subject {index}"
RECURSIVE IntToStr(_)
IntToStr(n) ==
  IF n < 10 THEN <<DigitSeq[n + 1]>>
  ELSE IntToStr(n \div 10) \o <<DigitSeq[(n % 10) + 1]>>

FallbackName(i) == <<"S","u","b","j","e","c","t"," ">> \o IntToStr(i)

\* --------------------------------------------------- AttendanceAggregator

\* config.GOOD_ATTENDANCE_THRESHOLD
GOOD_ATTENDANCE_THRESHOLD == 75

\* config.WARNING_ATTENDANCE_THRESHOLD
WARNING_ATTENDANCE_THRESHOLD == 65

RECURSIVE Sum(_)
Sum(l) == IF l = <<>> THEN 0 ELSE Head(l) + Sum(Tail(l))

\* `percentage >= threshold` for percentage = att / cond * 100 if cond > 0
\* else 0, in whole numbers
PercentAbove(att, cond, threshold) ==
  IF cond > 0 THEN 100 * att > threshold * cond ELSE 0 > threshold

PercentAtLeast(att, cond, threshold) ==
  IF cond > 0 THEN 100 * att >= threshold * cond ELSE 0 >= threshold

\* lines 185-194 of webapp.py
StatusOf(att, cond) ==
  IF PercentAtLeast(att, cond, GOOD_ATTENDANCE_THRESHOLD) THEN "GOOD"
  ELSE IF PercentAtLeast(att, cond, WARNING_ATTENDANCE_THRESHOLD)
    THEN "WARNING"
  ELSE "CRITICAL"

\* round(att / cond * 100, 2) in hundredths of a percent (a tie goes to the
\* even neighbour), 0 when cond is 0
PercentHundredths(att, cond) ==
  IF cond > 0
    THEN LET q == (10000 * att) \div cond
             r == (10000 * att) % cond
         IN IF 2 * r > cond \/ (2 * r = cond /\ q % 2 = 1) THEN q + 1 ELSE q
    ELSE 0

Min(a, b) == IF a < b THEN a ELSE b

\* the value of prepare_results_for_web when it returns None
NoReport == [subjects |-> <<>>, status |-> "None"]

\* the session has no 'results' key yet
NotStored == [subjects |-> <<>>, status |-> "unset"]

IsReport(r) == r # NotStored /\ r # NoReport

\* lines 162-179 of webapp.py: the subject at position i of the two lists
WebSubject(cl, al, names, i) ==
  [id |-> i,
   name |-> IF i <= Len(names) THEN names[i] ELSE FallbackName(i),
   conducted |-> cl[i],
   attended |-> al[i]]

prepare_results_for_web(cl, al, names) ==
  IF cl = <<>> \/ al = <<>> THEN NoReport
  ELSE [subjects |-> [i \in 1..Min(Len(cl), Len(al)) |->
                        WebSubject(cl, al, names, i)],
        total_conducted |-> Sum(cl),
        total_attended |-> Sum(al),
        overall_percentage |-> PercentHundredths(Sum(al), Sum(cl)),
        status |-> StatusOf(Sum(al), Sum(cl))]

\* calculate_and_display_results printed 'No attendance data'
NoDisplay == [status |-> "No attendance data"]

\* a display whose status lines use > where the report uses >=
DisplayStrict(cl, al) ==
  IF cl = <<>> \/ al = <<>> THEN NoDisplay
  ELSE [total_conducted |-> Sum(cl),
        total_attended |-> Sum(al),
        attendance_percentage |-> PercentHundredths(Sum(al), Sum(cl)),
        status |->
          IF PercentAbove(Sum(al), Sum(cl), GOOD_ATTENDANCE_THRESHOLD)
            THEN "GOOD"
          ELSE IF PercentAbove(Sum(al), Sum(cl), WARNING_ATTENDANCE_THRESHOLD)
            THEN "WARNING"
          ELSE "CRITICAL"]

\* lines 1046-1078 of attendance_checker.py: the totals, the percentage
\* (printed with two decimals) and the status line that are printed
calculate_and_display_results(cl, al) ==
  IF cl = <<>> \/ al = <<>> THEN NoDisplay
  ELSE [total_conducted |-> Sum(cl),
        total_attended |-> Sum(al),
        attendance_percentage |-> PercentHundredths(Sum(al), Sum(cl)),
        status |-> StatusOf(Sum(al), Sum(cl))]

\* -------------------------------------------- AttendanceAggregator as a run

\* (conducted, attended) pairs the subject loop can have stored
PairSamples ==
  {<<c, a>> : c \in {0, 4, 10, 20}, a \in {0, 3, 8, 13, 15}}

InitAgg ==
  /\ InitNormIdle
  /\ InitSolveIdle
  /\ InitLoginIdle
  /\ InitCountIdle /\ InitTypeIdle /\ InitTwoIdle
  /\ InitPageIdle /\ InitRunIdle
  /\ pc = "agg_display"
  /\ status = "running" /\ session_error = "unset" /\ results = NotStored
  /\ displayed = [status |-> "unset"]
  /\ subject_names = <<>> /\ plus_icons = <<>> /\ queried = <<>>
  /\ index = 0 /\ conducted = NoCount /\ subject_log = <<>>
  /\ \E pairs \in SeqsUpTo(PairSamples, MaxSubjects) :
       /\ conducted_list = [i \in DOMAIN pairs |-> pairs[i][1]]
       /\ attended_list = [i \in DOMAIN pairs |-> pairs[i][2]]

\* self.calculate_and_display_results()
AggDisplay ==
  /\ pc = "agg_display"
  /\ displayed' = calculate_and_display_results(conducted_list, attended_list)
  /\ pc' = "agg_prepare"
  /\ UNCHANGED <<normVars, solveVars, loginVars, sessionVars, extractVars,
                 countVars, typeVars, twoVars, pageVars, runVars>>

\* results = self.prepare_results_for_web()
AggPrepare ==
  /\ pc = "agg_prepare"
  /\ results' = prepare_results_for_web(conducted_list, attended_list,
                                        subject_names)
  /\ pc' = "agg_done"
  /\ UNCHANGED <<normVars, solveVars, loginVars, status, session_error,
                 extractVars, sideVars>>

NextAgg == AggDisplay \/ AggPrepare

SpecAgg == InitAgg /\ [][NextAgg]_vars

\* ------------------------------------------------------------- the page

\* text contents of the .col-lg-12 containers of sample pages
BlockMaths == <<"2","1","C","S","E","A","1","2","3","4","-","M","A","T","H","S">>

BlockOptics == <<"2","2","P","H","Y","S","5","6","7","8","-","O","P","T","I","C","S">>

BlockAlloys == <<"2","3","C","H","E","M","9","0","1","2","-","A","L","L","O","Y","S">>

BlockYoga == <<"7","-","Y","o","g","a">>

\* what query_selector_all('.col-lg-12') and text_content can give
ContainerSamples ==
  { <<>>,
    <<BlockMaths, BlockYoga>>,
    <<BlockMaths, BlockOptics, BlockAlloys>> }

\* -------------------------------------------- SubjectNameResolver as a run

\* a block with a serial number before the course code, and a block whose
\* name is followed by a label on the next line
BlockNumbered ==
  <<"S","-","1"," ","2","1","C","S","E","A","1","2","3","4","-","M","A","T","H","S">>

BlockDesign ==
  <<"2","4","M","E","C","H","3","4","5","6","-","D","E","S","I","G","N","\n",
    "C","O","N","D","U","C","T","E","D">>

\* text contents a container can have; <<>> is an empty or missing text
BlockSamples ==
  {<<>>, BlockMaths, BlockOptics, BlockAlloys, BlockYoga, BlockNumbered,
   BlockDesign}

MaxContainers == 3

InitNames ==
  /\ InitNormIdle /\ InitSolveIdle /\ InitLoginIdle /\ InitSessionIdle
  /\ InitExtractIdle
  /\ InitCountIdle /\ InitTypeIdle /\ InitCliIdle /\ InitTwoIdle
  /\ InitRunIdle
  /\ pc = "names_start"
  /\ subject_containers \in SeqsUpTo(BlockSamples, MaxContainers)

\* lines 718-723: the names are reset and the containers are queried; a
\* query that raises leaves no names
NamesQuery ==
  /\ pc = "names_start"
  /\ \E loaded \in BOOLEAN :
       pc' = IF loaded THEN "names_resolve" ELSE "names_failed"
  /\ subject_names' = <<>>
  /\ UNCHANGED <<sideVars, normVars, solveVars, loginVars, sessionVars,
                 plus_icons, queried, index, conducted, conducted_list,
                 attended_list, subject_log>>

\* lines 725-779: the two passes over the containers
NamesResolve ==
  /\ pc = "names_resolve"
  /\ subject_names' = extract_all_subject_names(subject_containers)
  /\ pc' = "names_done"
  /\ UNCHANGED <<sideVars, normVars, solveVars, loginVars, sessionVars,
                 plus_icons, queried, index, conducted, conducted_list,
                 attended_list, subject_log>>

NextNames == NamesQuery \/ NamesResolve

SpecNames == InitNames /\ [][NextNames]_vars

Elem(v, txt) == [vis |-> v, text |-> txt]

\* what query_selector_all("span[id*='lblClsCondID']") can give after a
\* click
ConductedSamples ==
  { <<>>,
    <<Elem(TRUE, <<"5">>)>>,
    <<Elem(TRUE, <<"0">>)>>,
    <<Elem(FALSE, <<"6","0">>)>> }

\* what query_selector_all("span[id*='lblClsAttID']") can give after a
\* click
AttendedSamples ==
  { <<>>,
    <<Elem(TRUE, <<"4">>)>>,
    <<Elem(FALSE, <<"4">>)>>,
    <<Elem(TRUE, <<"T","o","t","a","l","-","1","3">>)>>,
    <<Elem(FALSE, <<"P","-","1","2","/","E","-","1","/","L","-","0","/","M","C","R","-","0","/","R","-","0","/","T","o","t","a","l","-","1","3">>)>> }

\* the locator strategies, in the order of the code: config.PLUS_ICON_SELECTOR,
\* config.PLUS_ICON_XPATH, then alternative_selectors
Strategies ==
  <<"css", "xpath", "alt_plus", "alt_bx_plus", "alt_fa_plus",
    "alt_button_expand", "alt_expand">>

\* the elements a strategy can return, in document order
QueryResults == {[k \in 1..n |-> k] : n \in 0..MaxAnchors}

\* ------------------------------------------- CountExtractor as a run

\* text contents of the spans the two selectors can match
CountTexts ==
  { <<>>,
    <<"5">>,
    <<"0">>,
    <<"6","0">>,
    <<" ","7"," ">>,
    <<"x">>,
    <<"T","o","t","a","l","-">>,
    <<"T","o","t","a","l","-","1","3">>,
    <<"P","-","1","2","/","T","o","t","a","l","-"," ","1","3","/","4">>,
    <<"T","o","t","a","l","-","T","o","t","a","l","-","9">> }

CountElems == {Elem(v, t) : v \in BOOLEAN, t \in CountTexts}

InitCount ==
  /\ InitNormIdle
  /\ InitSolveIdle
  /\ InitLoginIdle
  /\ InitSessionIdle
  /\ InitExtractIdle
  /\ InitTypeIdle /\ InitCliIdle /\ InitPageIdle /\ InitRunIdle /\ InitTwoIdle
  /\ pc = "count_conducted"
  /\ all_conducted \in SeqsUpTo(CountElems, MaxElems)
  /\ all_attended = all_conducted
  /\ conducted_count = NoCount
  /\ attended_count = NoCount

\* extract_conducted_count on the spans the query returned
CountConducted ==
  /\ pc = "count_conducted"
  /\ conducted_count' = extract_conducted_count(all_conducted)
  /\ pc' = "count_attended"
  /\ UNCHANGED <<normVars, solveVars, loginVars, sessionVars, extractVars,
                 all_conducted, all_attended, attended_count, typeVars,
                 cliVars, pageVars, runVars, twoVars>>

\* extract_attended_count on the spans the query returned
CountAttended ==
  /\ pc = "count_attended"
  /\ attended_count' = extract_attended_count(all_attended)
  /\ pc' = "count_done"
  /\ UNCHANGED <<normVars, solveVars, loginVars, sessionVars, extractVars,
                 all_conducted, all_attended, conducted_count, typeVars,
                 cliVars, pageVars, runVars, twoVars>>

NextCount == CountConducted \/ CountAttended

SpecCount == InitCount /\ [][NextCount]_vars

\* ------------------------------------------------------------ the web run

\* a failure that returns without the finally clause
RunFailNoCleanup(msg) ==
  /\ status' = "failed"
  /\ session_error' = msg
  /\ pc' = "done"

\* the except clause of run_with_websocket, lines 144-149
RunFail(msg) ==
  /\ status' = "failed"
  /\ session_error' = msg
  /\ pc' = "cleanup"

\* lines 79-83: the first log line and status 'running'
RunStart ==
  /\ pc = "run_start"
  /\ status' = "running"
  /\ pc' = "setup"
  /\ UNCHANGED <<sideVars, normVars, solveVars, loginVars, session_error,
                 results, extractVars>>

\* what setup_gemini and setup_browser can do: return, raise an Exception,
\* or leave by sys.exit(1) (line 75, no API key), which raises SystemExit
SetupOutcomes == {"ok", "raise", "exit"}

\* lines 85-94: setup_gemini and setup_browser. SystemExit is not an
\* Exception: the except clause of line 144 is passed over and only the
\* finally clause runs
RunSetup ==
  /\ pc = "setup"
  /\ \E outcome \in SetupOutcomes :
       CASE outcome = "ok" ->
              /\ pc' = "login_goto"
              /\ UNCHANGED <<status, session_error>>
         [] outcome = "raise" -> RunFail("exception")
         [] OTHER ->
              /\ pc' = "cleanup"
              /\ UNCHANGED <<status, session_error>>
  /\ UNCHANGED <<sideVars, normVars, solveVars, loginVars, results, extractVars>>

\* lines 390-399 of attendance_checker.py: the login page is loaded; an
\* exception here is not caught by automated_login
LoginGoto ==
  /\ pc = "login_goto"
  /\ \E ok \in BOOLEAN :
       IF ok
         THEN /\ pc' = "login_loop"
              /\ login_attempt' = 1
              /\ UNCHANGED <<status, session_error>>
         ELSE /\ RunFail("exception")
              /\ UNCHANGED login_attempt
  /\ UNCHANGED <<sideVars, normVars, solveVars, captcha_text, via, field, submitted,
                 refreshes, current_url, refresh_btn, login_success, results, extractVars>>

\* lines 99-107: automated_login has returned; its locals and the login
\* page are left behind
RunAfterLogin ==
  /\ pc = "login_ret"
  /\ IF login_success = "True"
       THEN /\ pc' = "navigate"
            /\ UNCHANGED <<status, session_error>>
       ELSE RunFail("Login failed")
  /\ login_attempt' = 0 /\ captcha_text' = <<>> /\ via' = "none"
  /\ field' = <<>> /\ submitted' = <<>> /\ refreshes' = 0
  /\ current_url' = "none" /\ refresh_btn' = "none"
  /\ UNCHANGED <<sideVars, normVars, solveVars, login_success, results, extractVars>>

\* lines 110-120: navigate_to_attendance_page returns True or False, or
\* raises before its own try
RunNavigate ==
  /\ pc = "navigate"
  /\ \E nav \in {"ok", "redirected", "raise"} :
       CASE nav = "ok" -> /\ pc' = "extract_start"
                          /\ UNCHANGED <<status, session_error>>
         [] nav = "redirected" -> RunFail("Navigation failed")
         [] OTHER -> RunFail("exception")
  /\ UNCHANGED <<sideVars, normVars, solveVars, loginVars, results, extractVars>>

\* lines 589-604 of attendance_checker.py: the lists are reset and the
\* names are resolved; an exception before the names ends the extraction
ExtractStart ==
  /\ pc = "extract_start"
  /\ conducted_list' = <<>>
  /\ attended_list' = <<>>
  /\ \E loaded \in BOOLEAN, containers \in ContainerSamples :
       IF loaded
         THEN /\ subject_names' = extract_all_subject_names(containers)
              /\ pc' = "cascade"
         ELSE /\ subject_names' = <<>>
              /\ pc' = "calculate"
  /\ UNCHANGED <<sideVars, normVars, solveVars, loginVars, sessionVars, plus_icons,
                 queried, index, conducted, subject_log>>

\* `if not plus_icons` before each further strategy, and the break of the
\* loop over alternative_selectors
CascadeGoesOnAfterHit(icons, k) == k < Len(Strategies)

CascadeGoesOn(icons, k) == icons = <<>> /\ k < Len(Strategies)

\* lines 606-663: the next strategy is queried; a query that raises leaves
\* plus_icons as it was
QueryStrategy ==
  /\ pc = "cascade"
  /\ Len(queried) < Len(Strategies)
  /\ \E res \in QueryResults, raised \in BOOLEAN :
       LET k == Len(queried) + 1
           returned == IF raised THEN <<>> ELSE res
           icons == IF raised THEN plus_icons ELSE res
       IN /\ queried' = Append(queried, [strategy |-> Strategies[k],
                                         returned |-> returned])
          /\ plus_icons' = icons
          /\ IF CascadeGoesOn(icons, k)
               THEN /\ pc' = "cascade"
                    /\ UNCHANGED index
               ELSE IF icons = <<>>
                 THEN /\ pc' = "calculate"
                      /\ UNCHANGED index
               ELSE /\ pc' = "subject_loop"
                    /\ index' = 1
  /\ UNCHANGED <<sideVars, normVars, solveVars, loginVars, sessionVars, subject_names,
                 conducted, conducted_list, attended_list, subject_log>>

\* lines 671-675: the name bound to the anchor at position i
NameOfIndexNext(names, i) ==
  IF i + 1 <= Len(names) THEN names[i + 1] ELSE FallbackName(i)

NameOfIndex(names, i) ==
  IF i <= Len(names) THEN names[i] ELSE FallbackName(i)

\* the loop over plus_icons moves to the next anchor, or ends
NextSubject ==
  /\ index' = index + 1
  /\ pc' = IF index + 1 <= Len(plus_icons) THEN "subject_loop" ELSE "calculate"

\* lines 705-707: the except clause of the loop body continues with the
\* next anchor
SubjectFailedAbort == index' = index /\ pc' = "calculate"

SubjectFailed == NextSubject

\* lines 666-686: the anchor is scrolled to and clicked; an exception ends
\* this subject
SubjectClick ==
  /\ pc = "subject_loop"
  /\ index <= Len(plus_icons)
  /\ \E ok \in BOOLEAN :
       /\ subject_log' =
            Append(subject_log,
                   [index |-> index,
                    icon |-> plus_icons[index],
                    name |-> NameOfIndex(subject_names, index),
                    clicked |-> ok,
                    conducted |-> NoCount,
                    attended |-> NoCount])
       /\ IF ok
            THEN /\ pc' = "conducted"
                 /\ UNCHANGED index
            ELSE SubjectFailed
  /\ UNCHANGED <<sideVars, normVars, solveVars, loginVars, sessionVars, subject_names,
                 plus_icons, queried, conducted, conducted_list,
                 attended_list>>

\* line 689: conducted = await self.extract_conducted_count(index)
SubjectConducted ==
  /\ pc = "conducted"
  /\ \E elems \in ConductedSamples :
       conducted' = extract_conducted_count(elems)
  /\ pc' = "attended"
  /\ UNCHANGED <<sideVars, normVars, solveVars, loginVars, sessionVars, subject_names,
                 plus_icons, queried, index, conducted_list, attended_list,
                 subject_log>>

\* lines 694-700: both counts are stored, or neither
StoreConducted(cl, c, a) ==
  IF HasCount(c) /\ HasCount(a) THEN Append(cl, c) ELSE cl

\* attended stored whenever it was found, whatever conducted is
StoreAttendedAlone(al, c, a) == IF HasCount(a) THEN Append(al, a) ELSE al

StoreAttended(al, c, a) ==
  IF HasCount(c) /\ HasCount(a) THEN Append(al, a) ELSE al

\* lines 692-703: attended is extracted and the pair is stored
SubjectAttended ==
  /\ pc = "attended"
  /\ \E elems \in AttendedSamples :
       LET attended == extract_attended_count(elems)
           n == Len(subject_log)
       IN /\ conducted_list' = StoreConducted(conducted_list, conducted,
                                              attended)
          /\ attended_list' = StoreAttended(attended_list, conducted,
                                            attended)
          /\ subject_log' =
               [subject_log EXCEPT ![n].conducted = conducted,
                                   ![n].attended = attended]
  /\ conducted' = NoCount
  /\ NextSubject
  /\ UNCHANGED <<sideVars, normVars, solveVars, loginVars, sessionVars, subject_names,
                 plus_icons, queried>>

\* lines 127-135 of webapp.py: the results are prepared and stored, the
\* status becomes 'completed'
RunStoreResults ==
  /\ pc = "calculate"
  /\ results' = prepare_results_for_web(conducted_list, attended_list,
                                        subject_names)
  /\ status' = "completed"
  /\ pc' = "emit"
  /\ UNCHANGED <<sideVars, normVars, solveVars, loginVars, session_error, extractVars>>

\* lines 137-142: the log line and the emit of the results; an exception
\* of either reaches the except clause
RunEmit ==
  /\ pc = "emit"
  /\ \E ok \in BOOLEAN :
       IF ok
         THEN /\ pc' = "cleanup"
              /\ UNCHANGED <<status, session_error>>
         ELSE RunFail("exception")
  /\ UNCHANGED <<sideVars, normVars, solveVars, loginVars, results, extractVars>>

\* lines 151-155: the finally clause
RunCleanup ==
  /\ pc = "cleanup"
  /\ cleanups' = cleanups + 1
  /\ pc' = "done"
  /\ UNCHANGED <<countVars, typeVars, cliVars, twoVars, pageVars, normVars,
                 solveVars, loginVars, sessionVars, extractVars>>

\* check_attendance has stored the session with status 'starting' and
\* started the thread of run_with_websocket
Init ==
  /\ InitNormIdle
  /\ InitSideIdle
  /\ InitSolveIdle
  /\ InitLoginIdle
  /\ InitExtractIdle
  /\ pc = "run_start"
  /\ status = "starting"
  /\ session_error = "unset"
  /\ results = NotStored

Next ==
  \/ RunStart
  \/ RunSetup
  \/ LoginGoto
  \/ LoginBegin
  \/ SolveStart
  \/ SolveAttempt
  \/ LoginAfterSolve
  \/ LoginScreenshot
  \/ LoginFill
  \/ LoginClick
  \/ RunAfterLogin
  \/ RunNavigate
  \/ ExtractStart
  \/ QueryStrategy
  \/ SubjectClick
  \/ SubjectConducted
  \/ SubjectAttended
  \/ RunStoreResults
  \/ RunEmit
  \/ RunCleanup

Spec == Init /\ [][Next]_vars

\* the run is a thread of its own and every await of it returns or raises
\* (the waits of the page have timeouts): a step that can be taken is taken
SpecFair == Spec /\ WF_vars(Next)

\* ------------------------------------------------------------ the CLI run
\* JainAttendanceChecker.run, lines 1093-1134 of attendance_checker.py: the
\* steps of the try block with their outcomes, and the finally clause.

\* how a step that returns True or False can end
StepOutcomes == {"ok", "false", "raise"}

InitCli ==
  /\ InitNormIdle /\ InitSolveIdle /\ InitLoginIdle /\ InitSessionIdle
  /\ InitExtractIdle /\ InitSideIdle
  /\ pc = "cli_start"

\* lines 1101-1105: setup_gemini and get_credentials return, raise, or
\* leave by sys.exit(1); every way out of the try block leads to the
\* finally clause
CliSetup ==
  /\ pc = "cli_start"
  /\ \E outcome \in SetupOutcomes :
       pc' = IF outcome = "ok" THEN "cli_browser" ELSE "cli_cleanup"
  /\ UNCHANGED <<sideVars, normVars, solveVars, loginVars, sessionVars,
                 extractVars>>

\* line 1108: setup_browser
CliBrowser ==
  /\ pc = "cli_browser"
  /\ \E ok \in BOOLEAN :
       pc' = IF ok THEN "cli_login" ELSE "cli_cleanup"
  /\ UNCHANGED <<sideVars, normVars, solveVars, loginVars, sessionVars,
                 extractVars>>

\* lines 1111-1114: automated_login; False is answered by a return
CliLogin ==
  /\ pc = "cli_login"
  /\ \E outcome \in StepOutcomes :
       /\ login_success' = CASE outcome = "ok" -> "True"
                             [] outcome = "false" -> "False"
                             [] OTHER -> login_success
       /\ pc' = IF outcome = "ok" THEN "cli_navigate" ELSE "cli_cleanup"
  /\ UNCHANGED <<sideVars, normVars, solveVars, login_attempt, captcha_text,
                 via, field, submitted, refreshes, current_url, refresh_btn,
                 sessionVars, extractVars>>

\* lines 1117-1120: navigate_to_attendance_page; False is answered by a
\* return
CliNavigate ==
  /\ pc = "cli_navigate"
  /\ \E outcome \in StepOutcomes :
       pc' = IF outcome = "ok" THEN "cli_extract" ELSE "cli_cleanup"
  /\ UNCHANGED <<sideVars, normVars, solveVars, loginVars, sessionVars,
                 extractVars>>

\* line 1123: extract_attendance_data leaves its pairs in the two lists
CliExtract ==
  /\ pc = "cli_extract"
  /\ \E pairs \in SeqsUpTo(PairSamples, MaxSubjects) :
       /\ conducted_list' = [i \in DOMAIN pairs |-> pairs[i][1]]
       /\ attended_list' = [i \in DOMAIN pairs |-> pairs[i][2]]
  /\ pc' = "cli_calculate"
  /\ UNCHANGED <<sideVars, normVars, solveVars, loginVars, sessionVars,
                 subject_names, plus_icons, queried, index, conducted,
                 subject_log>>

\* line 1126: calculate_and_display_results
CliCalculate ==
  /\ pc = "cli_calculate"
  /\ displayed' = calculate_and_display_results(conducted_list, attended_list)
  /\ pc' = "cli_cleanup"
  /\ UNCHANGED <<countVars, typeVars, twoVars, pageVars, runVars, normVars,
                 solveVars, loginVars, sessionVars, extractVars>>

\* lines 1132-1134: the finally clause
CliCleanup ==
  /\ pc = "cli_cleanup"
  /\ cleanups' = cleanups + 1
  /\ pc' = "cli_done"
  /\ UNCHANGED <<countVars, typeVars, cliVars, twoVars, pageVars, normVars,
                 solveVars, loginVars, sessionVars, extractVars>>

NextCli ==
  \/ CliSetup
  \/ CliBrowser
  \/ CliLogin
  \/ CliNavigate
  \/ CliExtract
  \/ CliCalculate
  \/ CliCleanup

\* a run of either kind: the CLI run or the web run
InitRuns == Init \/ InitCli

NextRuns == Next \/ NextCli

SpecRuns == InitRuns /\ [][NextRuns]_vars /\ WF_vars(NextRuns)

\* ------------------------------------------------- concurrent web sessions
\* Each POST to /api/check-attendance makes a session and a thread with its
\* own WebAttendanceChecker; the threads interleave at every await and
\* every call. Login, navigation and extraction are taken as whole steps
\* with their outcomes.

\* the requests, in the order of their uuid4 session ids
SessionIds == 1..MaxSessions

\* self.session_id of the checker made for request r
SessionKeyFirst(r) == 1

SessionKey(r) == r

\* a key that is not in active_sessions
AbsentSession ==
  [status |-> "absent", error |-> "unset", results |-> NotStored,
   socket_id |-> 0]

\* the fields of a checker after __init__
FreshChecker ==
  [conducted_list |-> <<>>, attended_list |-> <<>>, subject_names |-> <<>>]

\* what one extraction can leave in the lists of a checker
ExtractedSamples ==
  { [conducted_list |-> <<>>, attended_list |-> <<>>,
     subject_names |-> <<>>],
    [conducted_list |-> <<5>>, attended_list |-> <<4>>,
     subject_names |-> <<>>],
    [conducted_list |-> <<10, 20>>, attended_list |-> <<8, 15>>,
     subject_names |-> <<>>] }

\* the browser that posted request r is socket client r; 0 is no client
Clients == SessionIds

\* the clients that have joined a session, and so are connected
Joined ==
  {active_sessions[k].socket_id : k \in SessionIds} \ {0}

\* emit(event, ...) inside a socket handler: the reply goes to the sender
EmitTo(r, event, c) ==
  emitted \cup {[session |-> r, event |-> event, to |-> {c}]}

\* socketio.emit(event, ...) made by the thread of request r: no `to` and
\* no room, so it is addressed to every client and each connected one
\* receives it
Emit(r, event) ==
  emitted \cup {[session |-> r, event |-> event, to |-> Clients]}

\* active_sessions with the status (and error) of one key set
WithStatus(sessions, key, st, err) ==
  [sessions EXCEPT ![key].status = st, ![key].error = err]

InitTwo ==
  /\ InitNormIdle
  /\ InitSolveIdle
  /\ InitLoginIdle
  /\ InitSessionIdle
  /\ InitExtractIdle
  /\ InitCountIdle /\ InitTypeIdle /\ InitCliIdle /\ InitPageIdle /\ InitRunIdle
  /\ pc = "serving"
  /\ active_sessions = [k \in SessionIds |-> AbsentSession]
  /\ run_pc = [r \in SessionIds |-> "none"]
  /\ checkers = [r \in SessionIds |-> FreshChecker]
  /\ emitted = {}
  /\ genai_api_key = "unset"

\* check_attendance, lines 211-252 of webapp.py: the session is stored with
\* status 'starting' and the thread is started
CheckAttendance(r) ==
  /\ run_pc[r] = "none"
  /\ active_sessions' =
       [active_sessions EXCEPT ![SessionKey(r)] =
          [status |-> "starting", error |-> "unset", results |-> NotStored,
           socket_id |-> 0]]
  /\ checkers' = [checkers EXCEPT ![r] = FreshChecker]
  /\ run_pc' = [run_pc EXCEPT ![r] = "start"]
  /\ UNCHANGED <<emitted, genai_api_key>>

\* handle_join_session, lines 272-282: the client of request r joins its
\* session; the socket id is stored and the reply goes to that client
JoinSession(r) ==
  /\ active_sessions[SessionKey(r)].status # "absent"
  /\ active_sessions[SessionKey(r)].socket_id = 0
  /\ active_sessions' =
       [active_sessions EXCEPT ![SessionKey(r)].socket_id = r]
  /\ emitted' = EmitTo(r, "joined_session", r)
  /\ UNCHANGED <<run_pc, checkers, genai_api_key>>

\* lines 79-94: first log line, status 'running', setup_gemini and
\* setup_browser
TwoStart(r) ==
  /\ run_pc[r] = "start"
  /\ emitted' = Emit(r, "log_message")
  /\ \E ok \in BOOLEAN :
       IF ok
         THEN /\ active_sessions' =
                   WithStatus(active_sessions, SessionKey(r), "running",
                              "unset")
              /\ genai_api_key' = "config"
              /\ run_pc' = [run_pc EXCEPT ![r] = "login"]
         ELSE /\ active_sessions' =
                   WithStatus(active_sessions, SessionKey(r), "failed",
                              "exception")
              /\ UNCHANGED genai_api_key
              /\ run_pc' = [run_pc EXCEPT ![r] = "cleanup"]
  /\ UNCHANGED checkers

\* lines 96-120: automated_login and navigate_to_attendance_page return
\* True or False, or raise
TwoLoginNavigate(r) ==
  /\ run_pc[r] \in {"login", "navigate"}
  /\ \E outcome \in {"ok", "false", "raise"} :
       CASE outcome = "ok" ->
              /\ run_pc' = [run_pc EXCEPT ![r] =
                              IF run_pc[r] = "login" THEN "navigate"
                              ELSE "extract"]
              /\ UNCHANGED active_sessions
         [] outcome = "false" ->
              /\ active_sessions' =
                   WithStatus(active_sessions, SessionKey(r), "failed",
                              IF run_pc[r] = "login" THEN "Login failed"
                              ELSE "Navigation failed")
              /\ run_pc' = [run_pc EXCEPT ![r] = "cleanup"]
         [] OTHER ->
              /\ active_sessions' =
                   WithStatus(active_sessions, SessionKey(r), "failed",
                              "exception")
              /\ run_pc' = [run_pc EXCEPT ![r] = "cleanup"]
  /\ genai_api_key' = IF run_pc[r] = "login" THEN "config" ELSE genai_api_key
  /\ UNCHANGED <<checkers, emitted>>

\* line 125: extract_attendance_data fills the lists of this checker
TwoExtract(r) ==
  /\ run_pc[r] = "extract"
  /\ \E found \in ExtractedSamples :
       checkers' = [checkers EXCEPT ![r] = found]
  /\ run_pc' = [run_pc EXCEPT ![r] = "store"]
  /\ UNCHANGED <<active_sessions, emitted, genai_api_key>>

\* lines 127-135: the results of this checker are stored in its session and
\* the status becomes 'completed'
TwoStore(r) ==
  /\ run_pc[r] = "store"
  /\ active_sessions' =
       [active_sessions EXCEPT
          ![SessionKey(r)].results =
             prepare_results_for_web(checkers[r].conducted_list,
                                     checkers[r].attended_list,
                                     checkers[r].subject_names),
          ![SessionKey(r)].status = "completed"]
  /\ run_pc' = [run_pc EXCEPT ![r] = "emit"]
  /\ UNCHANGED <<checkers, emitted, genai_api_key>>

\* lines 137-149: the results are emitted; an exception reaches the except
\* clause
TwoEmit(r) ==
  /\ run_pc[r] = "emit"
  /\ \E ok \in BOOLEAN :
       IF ok
         THEN /\ emitted' = Emit(r, "attendance_results")
              /\ UNCHANGED active_sessions
         ELSE /\ active_sessions' =
                   WithStatus(active_sessions, SessionKey(r), "failed",
                              "exception")
              /\ UNCHANGED emitted
  /\ run_pc' = [run_pc EXCEPT ![r] = "cleanup"]
  /\ UNCHANGED <<checkers, genai_api_key>>

\* lines 151-155: the finally clause
TwoCleanup(r) ==
  /\ run_pc[r] = "cleanup"
  /\ run_pc' = [run_pc EXCEPT ![r] = "done"]
  /\ UNCHANGED <<active_sessions, checkers, emitted, genai_api_key>>

NextTwo ==
  /\ \E r \in SessionIds :
       \/ CheckAttendance(r)
       \/ JoinSession(r)
       \/ TwoStart(r)
       \/ TwoLoginNavigate(r)
       \/ TwoExtract(r)
       \/ TwoStore(r)
       \/ TwoEmit(r)
       \/ TwoCleanup(r)
  /\ UNCHANGED <<normVars, pc, solveVars, loginVars, sessionVars,
                 extractVars, countVars, typeVars, cliVars, pageVars, runVars>>

SpecTwo == InitTwo /\ [][NextTwo]_vars

\* ================================================================= claims

\* C1: every captcha token that reaches the typing step or the login click
\* has passed the strict gate: at least 4 characters, all alphanumeric; no
\* shorter token is typed or submitted.
C1_TokenPassedStrictGate ==
  /\ pc \in {"fill", "click"} => StrictGate(captcha_text)
  /\ \A i \in DOMAIN submitted : Len(submitted[i]) >= 4

\* C2: every subject of the report carries the index and the name that
\* were bound to its anchor in the subject loop, with the counts extracted
\* after the click on that anchor.
C2_ReportKeepsDiscoveryBinding ==
  IsReport(results) =>
    \A i \in DOMAIN results.subjects :
      \E j \in DOMAIN subject_log :
        /\ subject_log[j].index = results.subjects[i].id
        /\ subject_log[j].name = results.subjects[i].name
        /\ subject_log[j].conducted = results.subjects[i].conducted
        /\ subject_log[j].attended = results.subjects[i].attended

\* C3: after the extraction the run holds one record per discovered anchor,
\* and the report has as many subjects as anchors were discovered.
C3_OneRecordPerAnchor ==
  /\ pc \in {"calculate", "emit"} => Len(conducted_list) = Len(plus_icons)
  /\ IsReport(results) => Len(results.subjects) = Len(plus_icons)

\* every strategy of the cascade was queried and none returned an element
StructureUnrecognized ==
  Len(queried) = Len(Strategies) /\ plus_icons = <<>>

\* C4: when every cascade strategy returns no element, no anchor is clicked,
\* no report is produced and the session does not become 'completed'.
C4_UnrecognizedStructureAborts ==
  StructureUnrecognized =>
    /\ subject_log = <<>>
    /\ ~IsReport(results)
    /\ status # "completed"

\* C5: every stored pair of counts satisfies
\* 0 <= attended <= conducted <= 50.
C5_PopulatedRecordInRange ==
  \A i \in DOMAIN conducted_list :
    /\ i \in DOMAIN attended_list
    /\ 0 <= attended_list[i]
    /\ attended_list[i] <= conducted_list[i]
    /\ conducted_list[i] <= MaxReasonable

\* C6: the cleaner is idempotent: cleaning a cleaned text that is not
\* absent gives the same text.
C6_CleanIsIdempotent ==
  (pc = "norm_done" /\ nout # None) => nout2 = nout

\* C7: when subjects were processed and none yielded both counts, the stored
\* result is still a report, with percentage 0 and status CRITICAL; and a
\* conducted value of 0 is never stored as a count.
C7_EmptyAggregationReports ==
  /\ (results # NotStored /\ subject_log # <<>> /\ conducted_list = <<>>) =>
       /\ IsReport(results)
       /\ results.overall_percentage = 0
       /\ results.status = "CRITICAL"
  /\ \A i \in DOMAIN conducted_list : conducted_list[i] # 0

\* C8: the solve makes at most max_retries calls of the AI, call i
\* (0-based) uses prompt i mod 4, an accepted text is the last call made and
\* its cleaned text is what the solve returns.
C8_SolveLoopContract ==
  /\ Len(calls) <= max_retries
  /\ \A i \in DOMAIN calls :
       /\ calls[i].prompt = (i - 1) % NumPrompts
       /\ StrictGate(CleanedOf(calls[i].out)) =>
            /\ i = Len(calls)
            /\ pc = "solve_ret"
            /\ solve_result = CleanedOf(calls[i].out)
  /\ (pc = "solve_ret" /\ Truthy(solve_result)) =>
       /\ calls # <<>>
       /\ solve_result = CleanedOf(calls[Len(calls)].out)
       /\ StrictGate(solve_result)

\* the solve wrapped around: its fifth call used the first prompt again and
\* was accepted
C8_Witness ==
  /\ pc = "solve_ret"
  /\ Len(calls) = NumPrompts + 1
  /\ calls[NumPrompts + 1].prompt = 0
  /\ solve_result = <<"X", "Y", "1", "2">>
  /\ calls[1].out = <<"A", "B", "1">>

\* C9: an error of one attempt does not end the solve: when the solve has
\* returned after at least one call, either its last call was accepted or
\* all max_retries calls were made and it returned the empty text.
C9_ErrorsDoNotAbortSolve ==
  (pc = "solve_ret" /\ calls # <<>>) =>
    \/ /\ StrictGate(CleanedOf(calls[Len(calls)].out))
       /\ solve_result = CleanedOf(calls[Len(calls)].out)
    \/ /\ Len(calls) = max_retries
       /\ \A i \in DOMAIN calls : ~StrictGate(CleanedOf(calls[i].out))
       /\ solve_result = <<>>

\* the first attempt raised, the later ones were still made, and the solve
\* returned the empty text
C9_Witness ==
  /\ pc = "solve_ret"
  /\ max_retries >= 3
  /\ Len(calls) = max_retries
  /\ calls[1].out = Error
  /\ calls[2].out = <<>>
  /\ calls[3].out = <<"A", "B", "1">>
  /\ solve_result = <<>>

\* C10: the strategies are queried in the order of the list, each queried
\* strategy before the last returned nothing, and plus_icons is exactly
\* what the last queried strategy returned.
C10_CascadeFirstHitWins ==
  /\ Len(queried) <= Len(Strategies)
  /\ \A i \in DOMAIN queried :
       /\ queried[i].strategy = Strategies[i]
       /\ i < Len(queried) => queried[i].returned = <<>>
  /\ plus_icons =
       IF queried = <<>> THEN <<>> ELSE queried[Len(queried)].returned
  /\ pc \in {"subject_loop", "conducted", "attended"} => plus_icons # <<>>

\* the third strategy was the first to return elements, and the subject
\* loop starts on them
C10_Witness ==
  /\ pc = "subject_loop"
  /\ Len(queried) = 3
  /\ Len(queried[3].returned) = 2
  /\ plus_icons = queried[3].returned
  /\ index = 1

\* C11: the names are resolved before the first click on an anchor and are
\* not changed afterwards: self.subject_names changes only in the step that
\* resolves the names, at which no anchor has been clicked; no click and no
\* count extraction changes it; and every processed anchor is bound to the
\* name at its position in that list.
C11_NamesResolvedBeforeClicks ==
  /\ [][/\ subject_names' # subject_names =>
             (pc = "extract_start" /\ subject_log = <<>>)
        /\ subject_log' # subject_log => subject_names' = subject_names
        /\ pc \in {"subject_loop", "conducted", "attended"} =>
             subject_names' = subject_names]_vars
  /\ [](\A j \in DOMAIN subject_log :
          subject_log[j].name =
            IF subject_log[j].index <= Len(subject_names)
              THEN subject_names[subject_log[j].index]
              ELSE FallbackName(subject_log[j].index))

\* three names were resolved, the second anchor has been clicked under the
\* second name and its counts are being extracted
C11_Witness ==
  /\ pc = "conducted"
  /\ Len(subject_names) = 3
  /\ Len(subject_log) = 2
  /\ subject_log[2].clicked
  /\ subject_log[2].name = <<"O","P","T","I","C","S">>

\* C12: the conducted count is the value of the last element of the
\* collection that is visible, has a pure-digit text (after trimming) and a
\* value in [1,50]; when no element qualifies it is the integer of the very
\* last element if that text is pure digits, whatever its visibility and
\* value; otherwise it is absent.
C12_ConductedScansBackward ==
  pc \in {"count_attended", "count_done"} =>
    LET n == Len(all_conducted)
        Txt(i) == Strip(all_conducted[i].text)
        Qualifies(i) ==
          /\ all_conducted[i].vis
          /\ Txt(i) # <<>>
          /\ \A k \in DOMAIN Txt(i) : Txt(i)[k] \in Digits
          /\ ToInt(Txt(i)) \in 1..50
        Q == {i \in 1..n : Qualifies(i)}
    IN IF Q # {}
         THEN \E i \in Q : /\ \A k \in Q : k <= i
                           /\ conducted_count = ToInt(Txt(i))
         ELSE IF n > 0 /\ Txt(n) # <<>>
                 /\ \A k \in DOMAIN Txt(n) : Txt(n)[k] \in Digits
           THEN conducted_count = ToInt(Txt(n))
         ELSE conducted_count = -1

\* two visible elements qualify and the later one wins
C12_Witness ==
  /\ pc = "count_attended"
  /\ Len(all_conducted) = 3
  /\ all_conducted[1] = Elem(TRUE, <<"5">>)
  /\ all_conducted[2] = Elem(TRUE, <<" ","7"," ">>)
  /\ all_conducted[3] = Elem(FALSE, <<"6","0">>)
  /\ conducted_count = 7

\* no element qualifies and the hidden last element, out of range, is taken
C12_WitnessFallback ==
  /\ pc = "count_attended"
  /\ Len(all_conducted) = 2
  /\ all_conducted[2] = Elem(FALSE, <<"6","0">>)
  /\ conducted_count = 60

C13_WitnessBare ==
  /\ pc = "count_done"
  /\ all_attended = <<Elem(TRUE, <<" ","7"," ">>)>>
  /\ attended_count = 7

\* a visible 'Total-' without digits gives absent
C13_WitnessNoDigits ==
  /\ pc = "count_done"
  /\ all_attended = <<Elem(TRUE, <<"T","o","t","a","l","-">>)>>
  /\ attended_count = -1

\* C14: when no visible attended element yields a number, the result is what
\* the last collected element yields under the rules of the visible scan:
\* the number after 'Total-', or the bare pure-digit text in [1,50].
C14_FallbackParsesLikeVisibleScan ==
  pc = "count_done" =>
    LET n == Len(all_attended)
        Txt(i) == Strip(all_attended[i].text)
        M(i) == FindFrom(Txt(i), TotalMarker, 1)
        After(i) == DropFirst(Txt(i), M(i) + Len(TotalMarker) - 1)
        Yields(i) ==
          IF M(i) # 0
            THEN IF \E k \in DOMAIN After(i) : After(i)[k] \in Digits
                   THEN ToInt(FirstNumber(After(i))) ELSE -1
          ELSE IF Txt(i) # <<>>
                  /\ (\A k \in DOMAIN Txt(i) : Txt(i)[k] \in Digits)
                  /\ ToInt(Txt(i)) \in 1..50
            THEN ToInt(Txt(i))
          ELSE -1
        Once(i) == M(i) = 0 \/ FindFrom(After(i), TotalMarker, 1) = 0
        V == {i \in 1..n : all_attended[i].vis /\ Yields(i) # -1}
    IN ((\A i \in 1..n : Once(i)) /\ n > 0 /\ V = {}) =>
         attended_count = Yields(n)

C15_WitnessZero ==
  /\ pc = "agg_done"
  /\ conducted_list = <<0>>
  /\ attended_list = <<3>>
  /\ results.overall_percentage = 0
  /\ results.status = "CRITICAL"

C17_TypesCleanedCharactersInOrder ==
  LET n == Len(page_ops)
      Kept(c) == c \in UpperLetters \cup LowerLetters \cup Digits
      RECURSIVE Expected(_)
      Expected(k) ==
        IF k = 0 THEN <<>>
        ELSE Expected(k - 1) \o
               (IF Kept(captcha_text[k]) THEN <<UpperChar(captcha_text[k])>>
                ELSE <<>>)
      RECURSIVE Keys(_)
      Keys(k) ==
        IF k = 0 THEN <<>>
        ELSE Keys(k - 1) \o
               (IF page_ops[k].op = "type" THEN page_ops[k].arg ELSE <<>>)
  IN /\ n >= 1 => page_ops[1].op = "fill"
     /\ n >= 2 => page_ops[2].op = "focus"
     /\ \A k \in 3..n :
          /\ page_ops[k].op \in {"type", "input_value"}
          /\ page_ops[k].op = "type" => Len(page_ops[k].arg) = 1
          /\ page_ops[k].op = "input_value" =>
               (k = n /\ char_i = Len(captcha_text))
     /\ Keys(n) = Expected(char_i)
     /\ pc = "type_done" =>
          /\ page_ops[n].op = "input_value"
          /\ field_value = Expected(Len(captcha_text))

\* "aB 3!" typed into a field that held an old value reads back "AB3"
C17_Witness ==
  /\ pc = "type_done"
  /\ captcha_text = <<"a", "B", " ", "3", "!">>
  /\ Len(page_ops) = 6
  /\ page_ops[3] = PageOp("type", <<"A">>)
  /\ page_ops[5] = PageOp("type", <<"3">>)
  /\ field_value = <<"A", "B", "3">>

\* C18: for the empty text and for every text of punctuation and white
\* space only, the cleaner returns absent.
C18_PunctuationOnlyGivesAbsent ==
  (pc \in {"norm_again", "norm_done"}
     /\ \A i \in DOMAIN nraw :
          nraw[i] \in {" ", "\t", "\n", "#", "UFF01"} \cup StripPunct)
    => nout = <<"None">>

\* a text of four different punctuation and white-space characters was
\* cleaned to absent
C18_Witness ==
  /\ pc = "norm_again"
  /\ nraw = <<"#", "UFF01", " ", "'">>
  /\ nout = <<"None">>

\* C19: for every preamble phrase p of the list and every token t of 4 to 8
\* letters and digits, the text p, a blank and the quoted t is cleaned to t
\* in upper case: the phrase stripped in step 2 is p itself, and what is
\* left after it is the quoted token.
C19_PreambleAndQuotesRemoved ==
  pc \in {"norm_again", "norm_done"} =>
    \A k \in DOMAIN unwanted_patterns, t \in TokenSamples :
      nraw = unwanted_patterns[k] \o <<" ", "'">> \o t \o <<"'">> =>
        /\ nout = [i \in DOMAIN t |-> UpperChar(t[i])]
        /\ StripPrefix(Upper(Strip(nraw))) =
             <<"'">> \o [i \in DOMAIN t |-> UpperChar(t[i])] \o <<"'">>
        /\ \A j \in 1..(k - 1) :
             ~StartsWith(Upper(Strip(nraw)), unwanted_patterns[j])

\* "THE CAPTCHA IS: 'xY12'" was cleaned to "XY12"
C19_Witness ==
  /\ pc = "norm_again"
  /\ nraw = <<"T","H","E"," ","C","A","P","T","C","H","A"," ","I","S",":"," ","'","x","Y","1","2","'">>
  /\ nout = <<"X","Y","1","2">>

LooseCandidates ==
  {LooseName(subject_containers[i]) : i \in DOMAIN subject_containers}
    \ {None}

NoDuplicates(s) == \A i, j \in DOMAIN s : s[i] = s[j] => i = j

\* C21: the resolved names come from one algorithm only. When the primary
\* pattern finds fewer than 3 names, the list holds exactly the names the
\* loose algorithm finds (each once, in page order, of length 4 to 49) and
\* nothing of the primary pass; when it finds 3 or more, the list is the
\* list of the primary pass, unchanged.
C21_NamesFromOneAlgorithm ==
  pc = "names_done" =>
    IF Len(PrimaryNames(subject_containers)) < 3
      THEN /\ Range(subject_names) = LooseCandidates
           /\ NoDuplicates(subject_names)
           /\ \A i \in DOMAIN subject_names :
                Len(subject_names[i]) \in 4..49
           /\ subject_names = LooseNames(subject_containers, <<>>)
      ELSE subject_names = PrimaryNames(subject_containers)

\* one or two primary names were found and discarded: one of them is not
\* among the names returned
C21_Witness ==
  /\ pc = "names_done"
  /\ Len(PrimaryNames(subject_containers)) \in 1..2
  /\ subject_names # <<>>
  /\ \E n \in Range(PrimaryNames(subject_containers)) :
       n \notin Range(subject_names)

\* three primary names are returned although the loose algorithm would
\* have found another name in one of the containers
C21_WitnessPrimary ==
  /\ pc = "names_done"
  /\ Len(subject_names) = 3
  /\ LooseCandidates \ Range(subject_names) # {}

\* the captured group of a block, cut at its first line break and then
\* tidied; None for a block the primary pattern does not match
CutAtLineBreak(text_content) ==
  LET text == Strip(text_content)
      i == FirstCodeFrom(text, 1)
  IN IF i = 0 THEN None
     ELSE Collapse(Strip(FirstLine(Strip(CapturedGroup(text, i)))))

\* C22: a name resolved by the primary pattern is cut at the first line
\* break of the captured group: every name of the primary list is the first
\* line of the group of one of the blocks, with nothing of a later line.
C22_PrimaryNameCutAtLineBreak ==
  (pc = "names_done" /\ Len(PrimaryNames(subject_containers)) >= 3) =>
    \A i \in DOMAIN subject_names :
      \E j \in DOMAIN subject_containers :
        subject_names[i] = CutAtLineBreak(subject_containers[j])

\* the positions of automated_login, its return included
LoginPositions ==
  {"login_loop", "solve_start", "solve_loop", "solve_ret", "screenshot",
   "fill", "click", "login_ret"}

\* C23: the login flow makes at most 2 attempts and at most 2 clicks on the
\* login button, one per attempt at most; it always returns; it returns
\* True only when the URL read after a click is the success URL, and False
\* only after the last attempt.
C23_LoginBoundedAndDecidedByUrl ==
  /\ [](pc \in LoginPositions =>
          /\ login_attempt \in 1..max_attempts
          /\ Len(submitted) <= login_attempt
          /\ Len(submitted) <= 2
          /\ (pc = "login_ret" => login_success \in {"True", "False"})
          /\ (pc = "login_ret" /\ login_success = "True" =>
                submitted # <<>> /\ current_url = LOGIN_SUCCESS_URL)
          /\ (pc = "login_ret" /\ login_success = "False" =>
                login_attempt = max_attempts))
  /\ (pc = "login_loop" ~> pc = "login_ret")

\* the second attempt succeeds after a first click that led to the failure
\* URL
C23_Witness ==
  /\ pc = "login_ret" /\ login_success = "True"
  /\ login_attempt = 2 /\ Len(submitted) = 2

\* both attempts clicked and the login is reported as failed
C23_WitnessFailed ==
  /\ pc = "login_ret" /\ login_success = "False"
  /\ Len(submitted) = 2 /\ current_url # LOGIN_SUCCESS_URL

C25_ListsPairedBySubject ==
  LET Both(j) ==
        subject_log[j].conducted # -1 /\ subject_log[j].attended # -1
      RECURSIVE Place(_)
      Place(j) == IF j = 0 THEN 0
                  ELSE Place(j - 1) + (IF Both(j) THEN 1 ELSE 0)
  IN /\ Len(conducted_list) = Len(attended_list)
     /\ Len(conducted_list) = Place(Len(subject_log))
     /\ \A j \in DOMAIN subject_log :
          Both(j) =>
            /\ conducted_list[Place(j)] = subject_log[j].conducted
            /\ attended_list[Place(j)] = subject_log[j].attended

\* the first subject yielded its attended count only and is in neither
\* list; the second yielded both and is at position 1 of both
C25_Witness ==
  /\ Len(subject_log) = 2
  /\ subject_log[1].conducted = -1 /\ subject_log[1].attended # -1
  /\ subject_log[2].conducted # -1 /\ subject_log[2].attended # -1
  /\ Len(conducted_list) = 1 /\ Len(attended_list) = 1

\* what client c has received: the events addressed to it, with the
\* session of the run that sent them
Received(c) == {e \in emitted : c \in e.to}

\* C26: the log messages and results of a session's run are delivered only
\* to the client that joined that session: every event a client has
\* received comes from the run of the session that client joined.
C26_DeliveredOnlyToJoinedClient ==
  \A c \in Joined :
    \A e \in Received(c) :
      active_sessions[SessionKey(e.session)].socket_id = c

\* C27: whenever the status of the session is 'completed', the stored
\* results are a report with at least one subject.
C27_CompletedHasReport ==
  status = "completed" =>
    /\ IsReport(results)
    /\ Len(results.subjects) >= 1

\* C28: the status of a web session only moves from starting to running and
\* from running to completed or failed; completed and failed are final; an
\* error is stored only with status failed and results only with status
\* completed; and every started run reaches completed or failed.
C28_StatusLifecycle ==
  /\ [][status' # status =>
          \/ status = "starting" /\ status' = "running"
          \/ status = "running" /\ status' \in {"completed", "failed"}]_vars
  /\ [](session_error # "unset" => status = "failed")
  /\ [](results # NotStored => status = "completed")
  /\ <>(status \in {"completed", "failed"})

\* the run has ended
RunEnded == pc \in {"done", "cli_done"}

C29_WitnessExit ==
  /\ pc = "done" /\ cleanups = 1 /\ status = "running"

\* a CLI run that printed its report has ended with one cleanup
C29_WitnessCli ==
  /\ pc = "cli_done" /\ cleanups = 1 /\ displayed.status = "GOOD"

\* a CLI run whose login returned False has ended with one cleanup
C29_WitnessCliLogin ==
  /\ pc = "cli_done" /\ cleanups = 1 /\ login_success = "False"

\* C30: on the same two lists the CLI aggregation and the web aggregation
\* give the same totals and the same status among GOOD, WARNING and
\* CRITICAL, and each gives no report exactly when a list is empty.
C30_CliAndWebAggregateAlike ==
  pc = "agg_done" =>
    LET empty == conducted_list = <<>> \/ attended_list = <<>>
    IN /\ (displayed = NoDisplay) <=> empty
       /\ (results = NoReport) <=> empty
       /\ ~empty =>
            /\ displayed.total_conducted = results.total_conducted
            /\ displayed.total_attended = results.total_attended
            /\ displayed.status = results.status
            /\ displayed.status \in {"GOOD", "WARNING", "CRITICAL"}

\* 13 of 20 is 65 percent, on the threshold: both say WARNING
C30_Witness ==
  /\ pc = "agg_done"
  /\ conducted_list = <<20>> /\ attended_list = <<13>>
  /\ displayed.status = "WARNING" /\ results.status = "WARNING"
  /\ displayed.total_attended = 13 /\ results.total_attended = 13

\* empty lists: the CLI prints that there is no data and the web has no
\* report
C30_WitnessEmpty ==
  /\ pc = "agg_done"
  /\ conducted_list = <<>>
  /\ displayed = NoDisplay /\ results = NoReport

====
